---- MODULE Spec2Model ----
(***************************************************************************)
(* Model of the dragonball VMM action dispatcher                           *)
(* (src/dragonball/src/api/v1/vmm_action.rs): VmmService::run_vmm_action   *)
(* and the per-action handlers, with the VM accessor and the device-class  *)
(* handlers as external collaborators.                                     *)
(***************************************************************************)
EXTENDS Integers, Sequences, FiniteSets, TLC

\* Number of operations (sending a request, dropping a channel half) the API
\* side performs in one behaviour.
MaxClientOps == 3

\* Hardware ceiling on the number of vCPUs.
MAX_SUPPORTED_VCPUS == 254

\* Option<T>: None is the empty tuple, Some(x) the one-element tuple.
None == <<>>
Some(x) == <<x>>

(***************************************************************************)
(* Values: CpuTopology, VmConfigInfo, VmmData, VmmActionError              *)
(***************************************************************************)
CpuTopology(t, c, d, s) ==
    [threads_per_core |-> t, cores_per_die |-> c, dies_per_socket |-> d, sockets |-> s]

DefaultVmConfigInfo ==
    [vcpu_count     |-> 1,
     max_vcpu_count |-> 1,
     cpu_pm         |-> "on",
     cpu_topology   |-> CpuTopology(1, 1, 1, 1),
     vpmu_feature   |-> 0,
     mem_type       |-> "shmem",
     mem_file_path  |-> "",
     mem_size_mib   |-> 128,
     serial_path    |-> None]

\* VmmRequestResult: Ok(VmmData) or Err(VmmActionError).
OkEmpty == [tag |-> "Ok", sub |-> "Empty", reason |-> "", value |-> None]
OkMachineConfiguration(cfg) ==
    [tag |-> "Ok", sub |-> "MachineConfiguration", reason |-> "", value |-> Some(cfg)]
Err(sub, reason, arg) == [tag |-> "Err", sub |-> sub, reason |-> reason, value |-> arg]
InvalidVMID == Err("InvalidVMID", "", None)
UpcallNotReady == Err("UpcallNotReady", "", None)
BootSource(reason, arg) == Err("BootSource", reason, arg)
StartMicroVm(reason) == Err("StartMicroVm", reason, None)
MachineConfig(reason, arg) == Err("MachineConfig", reason, arg)
Vsock(reason, arg) == Err("Vsock", reason, arg)
Block(reason) == Err("Block", reason, None)
VirtioNet(reason) == Err("VirtioNet", reason, None)
FsDevice(reason) == Err("FsDevice", reason, None)

(***************************************************************************)
(* u8 arithmetic                                                           *)
(***************************************************************************)
\* u8::checked_mul: None on overflow.
checked_mul(a, b) == IF a * b > 255 THEN None ELSE Some(a * b)

\* The `*` operator on u8 as a release build computes it (wrapping).
mul_u8(a, b) == (a * b) % 256

(***************************************************************************)
(* handle_cpu_topology: Ok(topology) or Err(error)                         *)
(***************************************************************************)
\* Variant: threads_per_core is checked after the product instead of first.
handle_cpu_topology_threads_last(cpu_topology, vcpu_count) ==
    LET m1 == checked_mul(cpu_topology.sockets, cpu_topology.dies_per_socket)
        m2 == IF m1 = None THEN None ELSE checked_mul(m1[1], cpu_topology.cores_per_die)
        m3 == IF m2 = None THEN None ELSE checked_mul(m2[1], cpu_topology.threads_per_core)
    IN  IF m3 = None
        THEN [err |-> Some(MachineConfig("VcpuCountExceedsMaximum", None)),
              topo |-> cpu_topology]
        ELSE IF m3[1] > MAX_SUPPORTED_VCPUS
        THEN [err |-> Some(MachineConfig("VcpuCountExceedsMaximum", None)),
              topo |-> cpu_topology]
        ELSE IF cpu_topology.threads_per_core < 1 \/ cpu_topology.threads_per_core > 2
        THEN [err |-> Some(MachineConfig("InvalidThreadsPerCore",
                                         Some(cpu_topology.threads_per_core))),
              topo |-> cpu_topology]
        ELSE IF m3[1] < vcpu_count
        THEN [err |-> Some(MachineConfig("InvalidCpuTopology", Some(m3[1]))),
              topo |-> cpu_topology]
        ELSE [err |-> None, topo |-> cpu_topology]

\* Variant: the product is computed with wrapping instead of checked multiplication.
handle_cpu_topology_wrapping(cpu_topology, vcpu_count) ==
    IF cpu_topology.threads_per_core < 1 \/ cpu_topology.threads_per_core > 2
    THEN [err |-> Some(MachineConfig("InvalidThreadsPerCore",
                                     Some(cpu_topology.threads_per_core))),
          topo |-> cpu_topology]
    ELSE
    LET m3 == mul_u8(mul_u8(mul_u8(cpu_topology.sockets, cpu_topology.dies_per_socket),
                            cpu_topology.cores_per_die),
                     cpu_topology.threads_per_core)
    IN  IF m3 > MAX_SUPPORTED_VCPUS
        THEN [err |-> Some(MachineConfig("VcpuCountExceedsMaximum", None)),
              topo |-> cpu_topology]
        ELSE IF m3 < vcpu_count
        THEN [err |-> Some(MachineConfig("InvalidCpuTopology", Some(m3))),
              topo |-> cpu_topology]
        ELSE [err |-> None, topo |-> cpu_topology]

\* Variant: a product below the requested vcpu_count is let through.
handle_cpu_topology_no_lower_bound(cpu_topology, vcpu_count) ==
    IF cpu_topology.threads_per_core < 1 \/ cpu_topology.threads_per_core > 2
    THEN [err |-> Some(MachineConfig("InvalidThreadsPerCore",
                                     Some(cpu_topology.threads_per_core))),
          topo |-> cpu_topology]
    ELSE
    LET m1 == checked_mul(cpu_topology.sockets, cpu_topology.dies_per_socket)
        m2 == IF m1 = None THEN None ELSE checked_mul(m1[1], cpu_topology.cores_per_die)
        m3 == IF m2 = None THEN None ELSE checked_mul(m2[1], cpu_topology.threads_per_core)
    IN  IF m3 = None
        THEN [err |-> Some(MachineConfig("VcpuCountExceedsMaximum", None)),
              topo |-> cpu_topology]
        ELSE IF m3[1] > MAX_SUPPORTED_VCPUS
        THEN [err |-> Some(MachineConfig("VcpuCountExceedsMaximum", None)),
              topo |-> cpu_topology]
        ELSE [err |-> None, topo |-> cpu_topology]

handle_cpu_topology(cpu_topology, vcpu_count) ==
    IF cpu_topology.threads_per_core < 1 \/ cpu_topology.threads_per_core > 2
    THEN [err |-> Some(MachineConfig("InvalidThreadsPerCore",
                                     Some(cpu_topology.threads_per_core))),
          topo |-> cpu_topology]
    ELSE
    LET m1 == checked_mul(cpu_topology.sockets, cpu_topology.dies_per_socket)
        m2 == IF m1 = None THEN None ELSE checked_mul(m1[1], cpu_topology.cores_per_die)
        m3 == IF m2 = None THEN None ELSE checked_mul(m2[1], cpu_topology.threads_per_core)
    IN  IF m3 = None
        THEN [err |-> Some(MachineConfig("VcpuCountExceedsMaximum", None)),
              topo |-> cpu_topology]
        ELSE IF m3[1] > MAX_SUPPORTED_VCPUS
        THEN [err |-> Some(MachineConfig("VcpuCountExceedsMaximum", None)),
              topo |-> cpu_topology]
        ELSE IF m3[1] < vcpu_count
        THEN [err |-> Some(MachineConfig("InvalidCpuTopology", Some(m3[1]))),
              topo |-> cpu_topology]
        ELSE [err |-> None, topo |-> cpu_topology]

(***************************************************************************)
(* VM accessor (crate::vm::Vm), consumed through its interface             *)
(***************************************************************************)
\* Vm::is_vm_initialized: every lifecycle state but Uninitialized.
is_vm_initialized(state) == state # "Uninitialized"

(***************************************************************************)
(* set_vm_configuration, in the order of its statements.  Each step works  *)
(* on the local clone `config` of the VM's configuration and yields either *)
(* an error (early return) or the updated clone.                           *)
(***************************************************************************)
Continue(config) == [err |-> None, config |-> config]
Return(e, config) == [err |-> Some(e), config |-> config]

\* Variant: a vcpu_count of 0 is not rejected.
apply_vcpu_count_accept_zero(config, machine_config) ==
    IF config.vcpu_count # machine_config.vcpu_count
    THEN Continue([config EXCEPT !.vcpu_count = machine_config.vcpu_count])
    ELSE Continue(config)

\* if config.vcpu_count != machine_config.vcpu_count { ... }
apply_vcpu_count(config, machine_config) ==
    IF config.vcpu_count # machine_config.vcpu_count
    THEN IF machine_config.vcpu_count = 0
         THEN Return(MachineConfig("InvalidVcpuCount", Some(machine_config.vcpu_count)),
                     config)
         ELSE Continue([config EXCEPT !.vcpu_count = machine_config.vcpu_count])
    ELSE Continue(config)

\* if config.cpu_topology != machine_config.cpu_topology { ... } else { ... }
apply_cpu_topology(config, machine_config) ==
    IF config.cpu_topology # machine_config.cpu_topology
    THEN LET r == handle_cpu_topology(machine_config.cpu_topology, config.vcpu_count)
         IN  IF r.err # None
             THEN Return(r.err[1], config)
             ELSE Continue([config EXCEPT !.cpu_topology = r.topo])
    ELSE LET cores == IF machine_config.max_vcpu_count > config.vcpu_count
                      THEN machine_config.max_vcpu_count
                      ELSE config.vcpu_count
         IN  Continue([config EXCEPT !.cpu_topology = CpuTopology(1, cores, 1, 1)])

\* threads_per_core * cores_per_die * dies_per_socket * sockets, unchecked
max_vcpu_from_topo(cpu_topology) ==
    mul_u8(mul_u8(mul_u8(cpu_topology.threads_per_core, cpu_topology.cores_per_die),
                  cpu_topology.dies_per_socket),
           cpu_topology.sockets)

\* Variant: the caller's max_vcpu_count is kept when it disagrees with the topology.
apply_max_vcpu_count_keep_caller(config, machine_config) ==
    IF machine_config.max_vcpu_count < config.vcpu_count
    THEN Return(MachineConfig("InvalidMaxVcpuCount", Some(machine_config.max_vcpu_count)),
                config)
    ELSE Continue([config EXCEPT !.max_vcpu_count = machine_config.max_vcpu_count])

\* Variant: max_vcpu_count is not compared with vcpu_count.
apply_max_vcpu_count_unchecked(config, machine_config) ==
    LET from_topo == max_vcpu_from_topo(config.cpu_topology)
        max_vcpu_count == machine_config.max_vcpu_count
    IN  IF from_topo # max_vcpu_count
        THEN Continue([config EXCEPT !.max_vcpu_count = from_topo])
        ELSE Continue([config EXCEPT !.max_vcpu_count = max_vcpu_count])

\* let mut max_vcpu_count = machine_config.max_vcpu_count; ...
apply_max_vcpu_count(config, machine_config) ==
    LET from_topo == max_vcpu_from_topo(config.cpu_topology)
        max_vcpu_count == machine_config.max_vcpu_count
    IN  IF max_vcpu_count < config.vcpu_count
        THEN Return(MachineConfig("InvalidMaxVcpuCount", Some(max_vcpu_count)), config)
        ELSE IF from_topo # max_vcpu_count
        THEN Continue([config EXCEPT !.max_vcpu_count = from_topo])
        ELSE Continue([config EXCEPT !.max_vcpu_count = max_vcpu_count])

\* Variant: the upper bound on mem_size_mib is exclusive.
apply_memory_exclusive_bound(config, machine_config) ==
    LET c1 == [config EXCEPT !.cpu_pm = machine_config.cpu_pm,
                             !.mem_type = machine_config.mem_type]
        mem_size_mib_value == machine_config.mem_size_mib
    IN  IF \/ mem_size_mib_value = 0
           \/ mem_size_mib_value >= 1048576
           \/ mem_size_mib_value % 2 # 0
        THEN Return(MachineConfig("InvalidMemorySize", Some(mem_size_mib_value)), c1)
        ELSE LET c2 == [c1 EXCEPT !.mem_size_mib = mem_size_mib_value,
                                  !.mem_file_path = machine_config.mem_file_path]
             IN  IF c2.mem_type = "hugetlbfs" /\ c2.mem_file_path = ""
                 THEN Return(MachineConfig("InvalidMemFilePath", Some("")), c2)
                 ELSE Continue([c2 EXCEPT !.vpmu_feature = machine_config.vpmu_feature])

\* Variant: the memory file path is not checked.
apply_memory_any_file_path(config, machine_config) ==
    LET c1 == [config EXCEPT !.cpu_pm = machine_config.cpu_pm,
                             !.mem_type = machine_config.mem_type]
        mem_size_mib_value == machine_config.mem_size_mib
    IN  IF \/ mem_size_mib_value = 0
           \/ mem_size_mib_value > 1048576
           \/ mem_size_mib_value % 2 # 0
        THEN Return(MachineConfig("InvalidMemorySize", Some(mem_size_mib_value)), c1)
        ELSE Continue([c1 EXCEPT !.mem_size_mib = mem_size_mib_value,
                                 !.mem_file_path = machine_config.mem_file_path,
                                 !.vpmu_feature = machine_config.vpmu_feature])

\* cpu_pm, mem_type, mem_size_mib, mem_file_path, vpmu_feature
apply_memory(config, machine_config) ==
    LET c1 == [config EXCEPT !.cpu_pm = machine_config.cpu_pm,
                             !.mem_type = machine_config.mem_type]
        mem_size_mib_value == machine_config.mem_size_mib
    IN  IF \/ mem_size_mib_value = 0
           \/ mem_size_mib_value > 1048576
           \/ mem_size_mib_value % 2 # 0
        THEN Return(MachineConfig("InvalidMemorySize", Some(mem_size_mib_value)), c1)
        ELSE LET c2 == [c1 EXCEPT !.mem_size_mib = mem_size_mib_value,
                                  !.mem_file_path = machine_config.mem_file_path]
             IN  IF c2.mem_type = "hugetlbfs" /\ c2.mem_file_path = ""
                 THEN Return(MachineConfig("InvalidMemFilePath", Some("")), c2)
                 ELSE Continue([c2 EXCEPT !.vpmu_feature = machine_config.vpmu_feature])

\* Variant: a request without a serial path resets it to the default.
apply_serial_path_forget_stored(config, machine_config, vm_id) ==
    LET serial_path ==
            IF machine_config.serial_path # None
            THEN machine_config.serial_path[1]
            ELSE "/run/dragonball/" \o vm_id \o "_com1"
    IN  Continue([config EXCEPT !.serial_path = Some(serial_path)])

\* let serial_path = match machine_config.serial_path { ... }
apply_serial_path(config, machine_config, vm_id) ==
    LET serial_path ==
            IF machine_config.serial_path # None
            THEN machine_config.serial_path[1]
            ELSE IF config.serial_path = None
                 THEN "/run/dragonball/" \o vm_id \o "_com1"
                 ELSE config.serial_path[1]
    IN  Continue([config EXCEPT !.serial_path = Some(serial_path)])

\* The body of set_vm_configuration after the lifecycle check: the candidate
\* record built from the VM's configuration, or the first error.
build_vm_config(vm_config, machine_config, vm_id) ==
    LET s1 == apply_vcpu_count(vm_config, machine_config) IN
    IF s1.err # None THEN s1 ELSE
    LET s2 == apply_cpu_topology(s1.config, machine_config) IN
    IF s2.err # None THEN s2 ELSE
    LET s3 == apply_max_vcpu_count(s2.config, machine_config) IN
    IF s3.err # None THEN s3 ELSE
    LET s4 == apply_memory(s3.config, machine_config) IN
    IF s4.err # None THEN s4 ELSE
    apply_serial_path(s4.config, machine_config, vm_id)

\* Variant: no lifecycle check.
set_vm_configuration_admit_any_state(vm_present, state) ==
    IF ~vm_present THEN Some(InvalidVMID) ELSE None

\* let vm = vmm.get_vm_mut().ok_or(InvalidVMID)?; if vm.is_vm_initialized() {...}
set_vm_configuration_admit(vm_present, state) ==
    IF ~vm_present THEN Some(InvalidVMID)
    ELSE IF is_vm_initialized(state)
    THEN Some(MachineConfig("UpdateNotAllowedPostBoot", None))
    ELSE None

\* Variant: writes the clone back before the remaining checks have passed.
set_vm_config_before_checks(stored, outcome) == outcome.config

\* vm.set_vm_config(config.clone()); self.machine_config = config;
\* reached only when no step returned early.
set_vm_config(stored, outcome) ==
    IF outcome.err = None THEN outcome.config ELSE stored

\* Variant: the new configuration is stored on the VM only, not in the cache.
set_vm_configuration_stale_cache(vm_present, state, vm_config, cached, machine_config, vm_id) ==
    LET admit == set_vm_configuration_admit(vm_present, state) IN
    IF admit # None
    THEN [resp |-> admit[1], vm_config |-> vm_config, machine_config |-> cached]
    ELSE LET outcome == build_vm_config(vm_config, machine_config, vm_id)
         IN  [resp |-> IF outcome.err = None THEN OkEmpty ELSE outcome.err[1],
              vm_config |-> set_vm_config(vm_config, outcome),
              machine_config |-> cached]

\* VmmService::set_vm_configuration: the response, the VM's configuration and
\* the dispatcher's cached configuration after the call.
set_vm_configuration(vm_present, state, vm_config, cached, machine_config, vm_id) ==
    LET admit == set_vm_configuration_admit(vm_present, state) IN
    IF admit # None
    THEN [resp |-> admit[1], vm_config |-> vm_config, machine_config |-> cached]
    ELSE LET outcome == build_vm_config(vm_config, machine_config, vm_id)
         IN  [resp |-> IF outcome.err = None THEN OkEmpty ELSE outcome.err[1],
              vm_config |-> set_vm_config(vm_config, outcome),
              machine_config |-> set_vm_config(cached, outcome)]

(***************************************************************************)
(* configure_boot_source                                                   *)
(***************************************************************************)
\* Files present on the host; File::open fails with NotFound for any other path.
ExistingFiles == {"/vmlinux", "/initrd.img"}
file_open(path) == IF path \in ExistingFiles THEN None ELSE Some("NotFound")

DEFAULT_KERNEL_CMDLINE ==
    "reboot=k panic=1 pci=off nomodules 8250.nr_uarts=1 i8042.noaux i8042.nomux i8042.nopnp i8042.dumbkbd"

\* Boot arguments that do not fit a Cmdline of CMDLINE_MAX_SIZE bytes.
OversizedBootArgs == {"<boot args longer than CMDLINE_MAX_SIZE>"}
\* Cmdline::new(CMDLINE_MAX_SIZE).insert_str(boot_args)
cmdline_insert_str(boot_args) ==
    IF boot_args \in OversizedBootArgs THEN Some("TooLarge") ELSE None

KernelConfigInfo(kernel_file, initrd_file, cmdline) ==
    [kernel_file |-> kernel_file, initrd_file |-> initrd_file, cmdline |-> cmdline]

\* Variant: the VM instance is not looked up first.
configure_boot_source_admit_no_vm_lookup(vm_present, state) ==
    IF vm_present /\ is_vm_initialized(state)
    THEN Some(BootSource("UpdateNotAllowedPostBoot", None))
    ELSE None

\* Variant: no lifecycle check.
configure_boot_source_admit_any_state(vm_present, state) ==
    IF ~vm_present THEN Some(InvalidVMID) ELSE None

\* let vm = vmm.get_vm_mut().ok_or(InvalidVMID)?; if vm.is_vm_initialized() {...}
configure_boot_source_admit(vm_present, state) ==
    IF ~vm_present THEN Some(InvalidVMID)
    ELSE IF is_vm_initialized(state)
    THEN Some(BootSource("UpdateNotAllowedPostBoot", None))
    ELSE None

\* Variant: the new kernel configuration is built but not installed.
set_kernel_config_dropped(installed, kernel_config) == installed

\* vm.set_kernel_config(kernel_config)
set_kernel_config(installed, kernel_config) == Some(kernel_config)

\* Variant: the initrd file is opened before the kernel file.
configure_boot_source_initrd_first(vm_present, state, kernel_config, boot_source_config) ==
    LET admit == configure_boot_source_admit(vm_present, state)
        kernel_err == file_open(boot_source_config.kernel_path)
        initrd_err == IF boot_source_config.initrd_path = None THEN None
                      ELSE file_open(boot_source_config.initrd_path[1])
        boot_args == IF boot_source_config.boot_args = None
                     THEN DEFAULT_KERNEL_CMDLINE
                     ELSE boot_source_config.boot_args[1]
        opened_initrd == IF boot_source_config.initrd_path = None THEN {}
                         ELSE {boot_source_config.initrd_path[1]}
        opened_both == opened_initrd \cup {boot_source_config.kernel_path}
    IN  IF admit # None
        THEN [resp |-> admit[1], kernel_config |-> kernel_config, opened |-> {}]
        ELSE IF initrd_err # None
        THEN [resp |-> BootSource("InvalidInitrdPath", initrd_err),
              kernel_config |-> kernel_config, opened |-> opened_initrd]
        ELSE IF kernel_err # None
        THEN [resp |-> BootSource("InvalidKernelPath", kernel_err),
              kernel_config |-> kernel_config, opened |-> opened_both]
        ELSE IF cmdline_insert_str(boot_args) # None
        THEN [resp |-> BootSource("InvalidKernelCommandLine", cmdline_insert_str(boot_args)),
              kernel_config |-> kernel_config, opened |-> opened_both]
        ELSE [resp |-> OkEmpty,
              kernel_config |->
                  set_kernel_config(kernel_config,
                                    KernelConfigInfo(boot_source_config.kernel_path,
                                                     boot_source_config.initrd_path,
                                                     boot_args)),
              opened |-> opened_both]

\* The response, the kernel configuration installed on the VM after the call
\* and the paths the call opened.
configure_boot_source(vm_present, state, kernel_config, boot_source_config) ==
    LET admit == configure_boot_source_admit(vm_present, state)
        kernel_err == file_open(boot_source_config.kernel_path)
        initrd_err == IF boot_source_config.initrd_path = None THEN None
                      ELSE file_open(boot_source_config.initrd_path[1])
        boot_args == IF boot_source_config.boot_args = None
                     THEN DEFAULT_KERNEL_CMDLINE
                     ELSE boot_source_config.boot_args[1]
        opened_kernel == {boot_source_config.kernel_path}
        opened_both == opened_kernel \cup
                       (IF boot_source_config.initrd_path = None THEN {}
                        ELSE {boot_source_config.initrd_path[1]})
    IN  IF admit # None
        THEN [resp |-> admit[1], kernel_config |-> kernel_config, opened |-> {}]
        ELSE IF kernel_err # None
        THEN [resp |-> BootSource("InvalidKernelPath", kernel_err),
              kernel_config |-> kernel_config, opened |-> opened_kernel]
        ELSE IF initrd_err # None
        THEN [resp |-> BootSource("InvalidInitrdPath", initrd_err),
              kernel_config |-> kernel_config, opened |-> opened_both]
        ELSE IF cmdline_insert_str(boot_args) # None
        THEN [resp |-> BootSource("InvalidKernelCommandLine", cmdline_insert_str(boot_args)),
              kernel_config |-> kernel_config, opened |-> opened_both]
        ELSE [resp |-> OkEmpty,
              kernel_config |->
                  set_kernel_config(kernel_config,
                                    KernelConfigInfo(boot_source_config.kernel_path,
                                                     boot_source_config.initrd_path,
                                                     boot_args)),
              opened |-> opened_both]

(***************************************************************************)
(* start_microvm, shutdown_microvm                                         *)
(***************************************************************************)
\* Vm::start_microvm, the VM accessor's boot sequence: without a kernel
\* configuration it fails with MissingKernelConfig and leaves the lifecycle
\* state alone; otherwise its outcome is the hypervisor core's.
\* boot is [err |-> None or Some(reason), state |-> the lifecycle state it leaves].
vm_start_microvm(state, kernel_config, boot) ==
    IF kernel_config = None
    THEN [err |-> Some("MissingKernelConfig"), state |-> state]
    ELSE boot

\* Variant: no lifecycle check.
start_microvm_admit_any_state(vm_present, state) ==
    IF ~vm_present THEN Some(InvalidVMID) ELSE None

\* let vm = vmm.get_vm_mut().ok_or(InvalidVMID)?; if vm.is_vm_initialized() {...}
start_microvm_admit(vm_present, state) ==
    IF ~vm_present THEN Some(InvalidVMID)
    ELSE IF is_vm_initialized(state)
    THEN Some(StartMicroVm("MicroVMAlreadyRunning"))
    ELSE None

\* Variant: the dispatcher itself marks the VM as starting, before its checks.
start_microvm_marks_starting(vm_present, state, kernel_config, boot) ==
    LET admit == start_microvm_admit(vm_present, state) IN
    IF admit # None
    THEN [resp |-> admit[1],
          state |-> IF state = "Uninitialized" THEN "Starting" ELSE state,
          boot_invoked |-> FALSE]
    ELSE LET r == vm_start_microvm(state, kernel_config, boot)
         IN  [resp |-> IF r.err = None THEN OkEmpty ELSE StartMicroVm(r.err[1]),
              state |-> r.state, boot_invoked |-> TRUE]

start_microvm(vm_present, state, kernel_config, boot) ==
    LET admit == start_microvm_admit(vm_present, state) IN
    IF admit # None
    THEN [resp |-> admit[1], state |-> state, boot_invoked |-> FALSE]
    ELSE LET r == vm_start_microvm(state, kernel_config, boot)
         IN  [resp |-> IF r.err = None THEN OkEmpty ELSE StartMicroVm(r.err[1]),
              state |-> r.state, boot_invoked |-> TRUE]

\* Variant: acknowledges without signalling the exit condition.
shutdown_microvm_no_signal(exit_evt) == [resp |-> OkEmpty, exit_evt_triggered |-> exit_evt]

\* vmm.event_ctx.exit_evt_triggered = true; Ok(VmmData::Empty)
shutdown_microvm(exit_evt) == [resp |-> OkEmpty, exit_evt_triggered |-> TRUE]

(***************************************************************************)
(* Device actions.  The device-class handlers and the device-operation     *)
(* context are external: `upcall` is the state of the upcall channel and   *)
(* `handler` the handler's own result (None for Ok, Some(reason) for Err). *)
(* Each operator yields the response, whether a context was requested and *)
(* which handler was invoked.                                              *)
(***************************************************************************)
\* Vm::create_device_op_context: a boot context before the VM is initialized,
\* a hot-plug context afterwards (None for Ok, Some(StartMicroVmError)).
create_device_op_context(state, hotplug, upcall) ==
    IF ~is_vm_initialized(state) THEN None
    ELSE IF ~hotplug THEN Some("MicroVMAlreadyRunning")
    ELSE IF upcall = "MissVsock" THEN Some("UpcallMissVsock")
    ELSE IF upcall = "NotReady" THEN Some("UpcallNotReady")
    ELSE None

DeviceOutcome(resp, ctx_requested, handler) ==
    [resp |-> resp, ctx_requested |-> ctx_requested, handler |-> handler]

\* Variant: the guest CID check lets the host's CID 2 through.
add_vsock_device_accept_host_cid(vm_present, state, hotplug, upcall, handler, guest_cid) ==
    IF ~vm_present THEN DeviceOutcome(InvalidVMID, FALSE, "none")
    ELSE IF is_vm_initialized(state)
    THEN DeviceOutcome(Vsock("UpdateNotAllowedPostBoot", None), FALSE, "none")
    ELSE IF guest_cid < 2
    THEN DeviceOutcome(Vsock("GuestCIDInvalid", Some(guest_cid)), FALSE, "none")
    ELSE IF create_device_op_context(state, hotplug, upcall) # None
    THEN DeviceOutcome(Vsock("UpdateNotAllowedPostBoot", None), TRUE, "none")
    ELSE DeviceOutcome(IF handler = None THEN OkEmpty ELSE Vsock(handler[1], None),
                       TRUE, "vsock.insert_device")

add_vsock_device(vm_present, state, hotplug, upcall, handler, guest_cid) ==
    IF ~vm_present THEN DeviceOutcome(InvalidVMID, FALSE, "none")
    ELSE IF is_vm_initialized(state)
    THEN DeviceOutcome(Vsock("UpdateNotAllowedPostBoot", None), FALSE, "none")
    ELSE IF guest_cid <= 2
    THEN DeviceOutcome(Vsock("GuestCIDInvalid", Some(guest_cid)), FALSE, "none")
    ELSE IF create_device_op_context(state, hotplug, upcall) # None
    THEN DeviceOutcome(Vsock("UpdateNotAllowedPostBoot", None), TRUE, "none")
    ELSE DeviceOutcome(IF handler = None THEN OkEmpty ELSE Vsock(handler[1], None),
                       TRUE, "vsock.insert_device")

\* Variant: the handler is called although no context could be obtained.
add_block_device_ignore_ctx_error(vm_present, state, hotplug, upcall, handler) ==
    IF ~vm_present THEN DeviceOutcome(InvalidVMID, FALSE, "none")
    ELSE DeviceOutcome(IF handler = None THEN OkEmpty ELSE Block(handler[1]),
                       TRUE, "blk.insert_device")

add_block_device(vm_present, state, hotplug, upcall, handler) ==
    LET ctx == create_device_op_context(state, hotplug, upcall) IN
    IF ~vm_present THEN DeviceOutcome(InvalidVMID, FALSE, "none")
    ELSE IF ctx # None
    THEN DeviceOutcome(IF ctx[1] = "UpcallNotReady" THEN UpcallNotReady
                       ELSE Block("UpdateNotAllowedPostBoot"), TRUE, "none")
    ELSE DeviceOutcome(IF handler = None THEN OkEmpty ELSE Block(handler[1]),
                       TRUE, "blk.insert_device")

update_blk_rate_limiters(vm_present, handler) ==
    IF ~vm_present THEN DeviceOutcome(InvalidVMID, FALSE, "none")
    ELSE DeviceOutcome(IF handler = None THEN OkEmpty ELSE Block(handler[1]),
                       FALSE, "blk.update_device_ratelimiters")

remove_block_device(vm_present, state, hotplug, upcall, handler) ==
    LET ctx == create_device_op_context(state, hotplug, upcall) IN
    IF ~vm_present THEN DeviceOutcome(InvalidVMID, FALSE, "none")
    ELSE IF ctx # None
    THEN DeviceOutcome(Block("UpdateNotAllowedPostBoot"), TRUE, "none")
    ELSE DeviceOutcome(IF handler = None THEN OkEmpty ELSE Block(handler[1]),
                       TRUE, "blk.remove_device")

\* Variant: every cause but UpcallNotReady is reported as a post-boot rejection.
add_virtio_net_device_two_causes(vm_present, state, hotplug, upcall, handler) ==
    LET ctx == create_device_op_context(state, hotplug, upcall) IN
    IF ~vm_present THEN DeviceOutcome(InvalidVMID, FALSE, "none")
    ELSE IF ctx # None
    THEN DeviceOutcome(IF ctx[1] = "UpcallNotReady" THEN UpcallNotReady
                       ELSE VirtioNet("UpdateNotAllowedPostBoot"), TRUE, "none")
    ELSE DeviceOutcome(IF handler = None THEN OkEmpty ELSE VirtioNet(handler[1]),
                       TRUE, "net.insert_device")

add_virtio_net_device(vm_present, state, hotplug, upcall, handler) ==
    LET ctx == create_device_op_context(state, hotplug, upcall) IN
    IF ~vm_present THEN DeviceOutcome(InvalidVMID, FALSE, "none")
    ELSE IF ctx # None
    THEN DeviceOutcome(IF ctx[1] = "MicroVMAlreadyRunning"
                       THEN VirtioNet("UpdateNotAllowedPostBoot")
                       ELSE IF ctx[1] = "UpcallNotReady" THEN UpcallNotReady
                       ELSE StartMicroVm(ctx[1]), TRUE, "none")
    ELSE DeviceOutcome(IF handler = None THEN OkEmpty ELSE VirtioNet(handler[1]),
                       TRUE, "net.insert_device")

update_net_rate_limiters(vm_present, handler) ==
    IF ~vm_present THEN DeviceOutcome(InvalidVMID, FALSE, "none")
    ELSE DeviceOutcome(IF handler = None THEN OkEmpty ELSE VirtioNet(handler[1]),
                       FALSE, "net.update_device_ratelimiters")

add_fs_device(vm_present, state, hotplug, upcall, handler) ==
    IF ~vm_present THEN DeviceOutcome(InvalidVMID, FALSE, "none")
    ELSE IF ~hotplug /\ is_vm_initialized(state)
    THEN DeviceOutcome(FsDevice("UpdateNotAllowedPostBoot"), FALSE, "none")
    ELSE IF create_device_op_context(state, hotplug, upcall) # None
    THEN DeviceOutcome(FsDevice("UpdateNotAllowedPostBoot"), TRUE, "none")
    ELSE DeviceOutcome(IF handler = None THEN OkEmpty ELSE FsDevice(handler[1]),
                       TRUE, "fs.insert_device")

\* Variant: the request is delegated whatever the lifecycle state.
manipulate_fs_backend_fs_any_state(vm_present, state, handler) ==
    IF ~vm_present THEN DeviceOutcome(InvalidVMID, FALSE, "none")
    ELSE DeviceOutcome(IF handler = None THEN OkEmpty ELSE FsDevice(handler[1]),
                       FALSE, "fs.manipulate_backend_fs")

manipulate_fs_backend_fs(vm_present, state, handler) ==
    IF ~vm_present THEN DeviceOutcome(InvalidVMID, FALSE, "none")
    ELSE IF ~is_vm_initialized(state)
    THEN DeviceOutcome(FsDevice("MicroVMNotRunning"), FALSE, "none")
    ELSE DeviceOutcome(IF handler = None THEN OkEmpty ELSE FsDevice(handler[1]),
                       FALSE, "fs.manipulate_backend_fs")

update_fs_rate_limiters(vm_present, state, handler) ==
    IF ~vm_present THEN DeviceOutcome(InvalidVMID, FALSE, "none")
    ELSE IF ~is_vm_initialized(state)
    THEN DeviceOutcome(FsDevice("MicroVMNotRunning"), FALSE, "none")
    ELSE DeviceOutcome(IF handler = None THEN OkEmpty ELSE FsDevice(handler[1]),
                       FALSE, "fs.update_device_ratelimiters")

(***************************************************************************)
(* Requests the API side may submit                                        *)
(***************************************************************************)
Request(kind, payload) == [kind |-> kind, payload |-> payload]

VcpuCounts == {0, 1, 2, 255}
MaxVcpuCounts == {1, 2, 255}
Topologies ==
    {CpuTopology(2, 1, 1, 1), CpuTopology(2, 128, 1, 1), CpuTopology(3, 1, 1, 1),
     CpuTopology(1, 1, 0, 1), CpuTopology(2, 2, 2, 2)}
\* (mem_size_mib, mem_type, mem_file_path)
MemorySettings ==
    {<<0, "shmem", "">>, <<3, "shmem", "">>,
     <<1048576, "shmem", "">>, <<1048578, "shmem", "">>,
     <<2, "hugetlbfs", "/dev/hugepages">>, <<128, "hugetlbfs", "">>,
     <<3, "hugetlbfs", "">>}

\* Payloads that leave the topology at its default value and vary the counts.
CountPayloads ==
    {[DefaultVmConfigInfo EXCEPT !.vcpu_count = v, !.max_vcpu_count = m] :
        v \in VcpuCounts, m \in MaxVcpuCounts}
\* Payloads that supply a topology.
TopologyPayloads ==
    {[DefaultVmConfigInfo EXCEPT !.vcpu_count = v, !.max_vcpu_count = m, !.cpu_topology = t] :
        v \in {1, 2}, m \in {1, 2}, t \in Topologies}
\* Payloads that vary the memory fields or the serial path.
MemPayloads ==
    {[DefaultVmConfigInfo EXCEPT !.mem_size_mib = ms[1], !.mem_type = ms[2],
                                 !.mem_file_path = ms[3]] : ms \in MemorySettings}
    \cup {[DefaultVmConfigInfo EXCEPT !.serial_path = Some("/tmp/com1")]}
VmConfigPayloads == CountPayloads \cup TopologyPayloads \cup MemPayloads

BootSourceConfig(kernel_path, initrd_path, boot_args) ==
    [kernel_path |-> kernel_path, initrd_path |-> initrd_path, boot_args |-> boot_args]
BootSourcePayloads ==
    {BootSourceConfig(k, i, a) :
        k \in {"", "/vmlinux"},
        i \in {None, Some("/initrd.img"), Some("/missing.img")},
        a \in {None, Some("<boot args longer than CMDLINE_MAX_SIZE>")}}

GuestCids == {0, 1, 2, 3}

PlainKinds ==
    {"StartMicroVm", "ShutdownMicroVm", "GetVmConfiguration",
     "InsertBlockDevice", "UpdateBlockDevice", "RemoveBlockDevice",
     "InsertNetworkDevice", "UpdateNetworkInterface",
     "InsertFsDevice", "ManipulateFsBackendFs", "UpdateFsDevice"}

Requests ==
    {Request("ConfigureBootSource", Some(b)) : b \in BootSourcePayloads}
    \cup {Request("SetVmConfiguration", Some(c)) : c \in VmConfigPayloads}
    \cup {Request("InsertVsockDevice", Some(cid)) : cid \in GuestCids}
    \cup {Request(k, None) : k \in PlainKinds}

(***************************************************************************)
(* What the external collaborators answer during one call                  *)
(***************************************************************************)
Upcalls == {"Ready", "NotReady", "MissVsock"}
HandlerOutcomes == {None, Some("InvalidDeviceId")}
BootOutcomes ==
    {[err |-> None, state |-> "Running"],
     [err |-> Some("LoadKernelFailed"), state |-> "Starting"]}

Env(upcall, handler, boot) == [upcall |-> upcall, handler |-> handler, boot |-> boot]
Envs(kind) ==
    IF kind = "StartMicroVm"
    THEN {Env("Ready", None, b) : b \in BootOutcomes}
    ELSE IF kind \in {"InsertVsockDevice", "InsertBlockDevice", "RemoveBlockDevice",
                      "InsertNetworkDevice", "InsertFsDevice"}
    THEN {Env(u, h, CHOOSE b \in BootOutcomes : b.err = None) :
            u \in Upcalls, h \in HandlerOutcomes}
    ELSE IF kind \in {"UpdateBlockDevice", "UpdateNetworkInterface",
                      "ManipulateFsBackendFs", "UpdateFsDevice"}
    THEN {Env("Ready", h, CHOOSE b \in BootOutcomes : b.err = None) :
            h \in HandlerOutcomes}
    ELSE {Env("Ready", None, CHOOSE b \in BootOutcomes : b.err = None)}

(***************************************************************************)
(* State                                                                   *)
(***************************************************************************)
VARIABLES
    vm_present,          \* vmm.get_vm_mut() is Some
    hotplug,             \* the build has the "hotplug" feature
    instance_state,      \* the VM's lifecycle state
    kernel_config,       \* the kernel configuration installed on the VM
    vm_config,           \* the VM's machine configuration (vm.vm_config())
    machine_config,      \* VmmService.machine_config, the dispatcher's cached copy
    exit_evt_triggered,  \* vmm.event_ctx.exit_evt_triggered
    from_api,            \* request channel: requests sent and not yet received
    to_api,              \* response channel: responses sent and not yet received
    sender_alive,        \* the sending half of the request channel is not dropped
    receiver_alive,      \* the receiving half of the response channel is not dropped
    awaiting,            \* the API side has a request without a response yet
    n_client_ops,        \* operations the API side has performed so far
    n_submitted,         \* requests sent on the request channel so far
    n_dequeued,          \* requests try_recv has returned so far
    n_sent,              \* responses sent on the response channel so far
    boot_source_configured, \* some ConfigureBootSource has returned Ok
    start_succeeded,     \* some StartMicroVm has returned Ok
    panicked,            \* run_vmm_action has panicked
    last                 \* what the most recent run_vmm_action call did

vm_vars == <<vm_present, hotplug, instance_state, kernel_config, vm_config,
             machine_config, exit_evt_triggered>>
vars == <<vm_present, hotplug, instance_state, kernel_config, vm_config,
          machine_config, exit_evt_triggered, from_api, to_api, sender_alive,
          receiver_alive, awaiting, n_client_ops, n_submitted, n_dequeued, n_sent,
          boot_source_configured, start_succeeded, panicked, last>>

\* The VM's identity (vm.shared_info().id).
vm_id == "vm0"

NoCall ==
    [outcome |-> "none", req |-> None, resp |-> None, env |-> None,
     ctx_requested |-> FALSE, handler |-> "none", boot_invoked |-> FALSE,
     opened |-> {}]

Init ==
    /\ vm_present \in BOOLEAN
    /\ hotplug \in BOOLEAN
    /\ instance_state = "Uninitialized"
    /\ kernel_config = None
    /\ vm_config = DefaultVmConfigInfo
    /\ machine_config = DefaultVmConfigInfo
    /\ exit_evt_triggered = FALSE
    /\ from_api = <<>>
    /\ to_api = <<>>
    /\ sender_alive = TRUE
    /\ receiver_alive = TRUE
    /\ awaiting = FALSE
    /\ n_client_ops = 0
    /\ n_submitted = 0
    /\ n_dequeued = 0
    /\ n_sent = 0
    /\ boot_source_configured = FALSE
    /\ start_succeeded = FALSE
    /\ panicked = FALSE
    /\ last = NoCall

(***************************************************************************)
(* The API side: one request at a time, the next one only after the        *)
(* response to the previous one has been received.                         *)
(***************************************************************************)
Submit ==
    /\ ~panicked /\ sender_alive /\ ~awaiting
    /\ n_client_ops < MaxClientOps
    /\ \E request \in Requests : from_api' = Append(from_api, request)
    /\ awaiting' = TRUE
    /\ n_submitted' = n_submitted + 1
    /\ n_client_ops' = n_client_ops + 1
    /\ UNCHANGED <<vm_vars, to_api, sender_alive, receiver_alive, n_dequeued, n_sent,
                   boot_source_configured, start_succeeded, panicked, last>>

Receive ==
    /\ receiver_alive /\ to_api # <<>>
    /\ to_api' = Tail(to_api)
    /\ awaiting' = FALSE
    /\ UNCHANGED <<vm_vars, from_api, sender_alive, receiver_alive, n_client_ops,
                   n_submitted, n_dequeued, n_sent, boot_source_configured,
                   start_succeeded, panicked, last>>

DropSender ==
    /\ ~panicked /\ sender_alive
    /\ n_client_ops < MaxClientOps
    /\ sender_alive' = FALSE
    /\ n_client_ops' = n_client_ops + 1
    /\ UNCHANGED <<vm_vars, from_api, to_api, receiver_alive, awaiting, n_submitted,
                   n_dequeued, n_sent, boot_source_configured, start_succeeded, panicked, last>>

DropReceiver ==
    /\ ~panicked /\ receiver_alive
    /\ n_client_ops < MaxClientOps
    /\ receiver_alive' = FALSE
    /\ n_client_ops' = n_client_ops + 1
    /\ UNCHANGED <<vm_vars, from_api, to_api, sender_alive, awaiting, n_submitted,
                   n_dequeued, n_sent, boot_source_configured, start_succeeded, panicked, last>>

(***************************************************************************)
(* run_vmm_action                                                          *)
(***************************************************************************)
\* Variant: a disconnected channel is taken for an empty one.
try_recv_disconnected_is_empty(chan, alive) ==
    IF chan # <<>> THEN "Ok" ELSE "Empty"

\* Variant: a queued request is not seen.
try_recv_misses_request(chan, alive) ==
    IF alive THEN "Empty" ELSE "Disconnected"

\* Variant: an empty channel is taken for a disconnected one.
try_recv_empty_is_disconnected(chan, alive) ==
    IF chan # <<>> THEN "Ok" ELSE "Disconnected"

\* self.from_api.try_recv()
try_recv(chan, alive) ==
    IF chan # <<>> THEN "Ok" ELSE IF alive THEN "Empty" ELSE "Disconnected"

\* Variant: the response is put in front of the responses not yet received.
send_response_prepend(chan, alive, result) ==
    IF alive THEN [chan |-> <<result>> \o chan, panicked |-> FALSE]
    ELSE [chan |-> chan, panicked |-> TRUE]

\* Variant: error results are not sent.
send_response_ok_only(chan, alive, result) ==
    IF ~alive THEN [chan |-> chan, panicked |-> TRUE]
    ELSE IF result.tag = "Err" THEN [chan |-> chan, panicked |-> FALSE]
    ELSE [chan |-> Append(chan, result), panicked |-> FALSE]

\* self.to_api.send(Box::new(result)).expect(..): the channel after the call,
\* and whether the call panicked.
send_response(chan, alive, result) ==
    IF alive THEN [chan |-> Append(chan, result), panicked |-> FALSE]
    ELSE [chan |-> chan, panicked |-> TRUE]

Effect(resp) ==
    [resp |-> resp, instance_state |-> instance_state, kernel_config |-> kernel_config,
     vm_config |-> vm_config, machine_config |-> machine_config,
     exit_evt_triggered |-> exit_evt_triggered, ctx_requested |-> FALSE,
     handler |-> "none", boot_invoked |-> FALSE, opened |-> {}]
DeviceEffect(d) ==
    [Effect(d.resp) EXCEPT !.ctx_requested = d.ctx_requested, !.handler = d.handler]

\* Variant: answers with the default configuration instead of the cached one.
get_vm_configuration_default(cached) == OkMachineConfiguration(DefaultVmConfigInfo)

\* Ok(VmmData::MachineConfiguration(Box::new(self.machine_config.clone())))
get_vm_configuration(cached) == OkMachineConfiguration(cached)

\* let response = match request { ... }
dispatch(request, env) ==
    CASE request.kind = "ConfigureBootSource" ->
            LET r == configure_boot_source(vm_present, instance_state, kernel_config,
                                           request.payload[1])
            IN  [Effect(r.resp) EXCEPT !.kernel_config = r.kernel_config,
                                       !.opened = r.opened]
      [] request.kind = "StartMicroVm" ->
            LET r == start_microvm(vm_present, instance_state, kernel_config, env.boot)
            IN  [Effect(r.resp) EXCEPT !.instance_state = r.state,
                                       !.boot_invoked = r.boot_invoked]
      [] request.kind = "ShutdownMicroVm" ->
            LET r == shutdown_microvm(exit_evt_triggered)
            IN  [Effect(r.resp) EXCEPT !.exit_evt_triggered = r.exit_evt_triggered]
      [] request.kind = "GetVmConfiguration" ->
            Effect(get_vm_configuration(machine_config))
      [] request.kind = "SetVmConfiguration" ->
            LET r == set_vm_configuration(vm_present, instance_state, vm_config,
                                          machine_config, request.payload[1], vm_id)
            IN  [Effect(r.resp) EXCEPT !.vm_config = r.vm_config,
                                       !.machine_config = r.machine_config]
      [] request.kind = "InsertVsockDevice" ->
            DeviceEffect(add_vsock_device(vm_present, instance_state, hotplug,
                                          env.upcall, env.handler, request.payload[1]))
      [] request.kind = "InsertBlockDevice" ->
            DeviceEffect(add_block_device(vm_present, instance_state, hotplug,
                                          env.upcall, env.handler))
      [] request.kind = "UpdateBlockDevice" ->
            DeviceEffect(update_blk_rate_limiters(vm_present, env.handler))
      [] request.kind = "RemoveBlockDevice" ->
            DeviceEffect(remove_block_device(vm_present, instance_state, hotplug,
                                             env.upcall, env.handler))
      [] request.kind = "InsertNetworkDevice" ->
            DeviceEffect(add_virtio_net_device(vm_present, instance_state, hotplug,
                                               env.upcall, env.handler))
      [] request.kind = "UpdateNetworkInterface" ->
            DeviceEffect(update_net_rate_limiters(vm_present, env.handler))
      [] request.kind = "InsertFsDevice" ->
            DeviceEffect(add_fs_device(vm_present, instance_state, hotplug,
                                       env.upcall, env.handler))
      [] request.kind = "ManipulateFsBackendFs" ->
            DeviceEffect(manipulate_fs_backend_fs(vm_present, instance_state, env.handler))
      [] request.kind = "UpdateFsDevice" ->
            DeviceEffect(update_fs_rate_limiters(vm_present, instance_state, env.handler))

run_vmm_action ==
    /\ ~panicked
    /\ LET received == try_recv(from_api, sender_alive) IN
       IF received = "Empty"
       THEN /\ last' = [NoCall EXCEPT !.outcome = "spurious"]
            /\ UNCHANGED <<vm_vars, from_api, to_api, sender_alive, receiver_alive,
                           awaiting, n_client_ops, n_submitted, n_dequeued, n_sent,
                           boot_source_configured, start_succeeded, panicked>>
       ELSE IF received = "Disconnected"
       THEN /\ panicked' = TRUE
            /\ last' = [NoCall EXCEPT !.outcome = "panicked"]
            /\ UNCHANGED <<vm_vars, from_api, to_api, sender_alive, receiver_alive,
                           awaiting, n_client_ops, n_submitted, n_dequeued, n_sent,
                           boot_source_configured, start_succeeded>>
       ELSE \E request \in {Head(from_api)} :
            \E env \in Envs(request.kind) :
            \E e \in {dispatch(request, env)} :
            \E sent \in {send_response(to_api, receiver_alive, e.resp)} :
                /\ from_api' = Tail(from_api)
                /\ n_dequeued' = n_dequeued + 1
                /\ instance_state' = e.instance_state
                /\ kernel_config' = e.kernel_config
                /\ vm_config' = e.vm_config
                /\ machine_config' = e.machine_config
                /\ exit_evt_triggered' = e.exit_evt_triggered
                /\ boot_source_configured' =
                       (boot_source_configured
                        \/ (request.kind = "ConfigureBootSource" /\ e.resp = OkEmpty))
                /\ start_succeeded' =
                       (start_succeeded
                        \/ (request.kind = "StartMicroVm" /\ e.resp = OkEmpty))
                /\ to_api' = sent.chan
                /\ n_sent' = n_sent + (Len(sent.chan) - Len(to_api))
                /\ panicked' = sent.panicked
                /\ last' = [outcome |-> IF sent.panicked THEN "panicked" ELSE "responded",
                            req |-> Some(request), resp |-> Some(e.resp),
                            env |-> Some(env),
                            ctx_requested |-> e.ctx_requested, handler |-> e.handler,
                            boot_invoked |-> e.boot_invoked, opened |-> e.opened]
                /\ UNCHANGED <<vm_present, hotplug, sender_alive, receiver_alive,
                               awaiting, n_client_ops, n_submitted>>

Next == Submit \/ run_vmm_action \/ Receive \/ DropSender \/ DropReceiver

Spec == Init /\ [][Next]_vars

(***************************************************************************)
(* Validation of a single SetVmConfiguration request over a wide range of  *)
(* CPU and memory fields: the API side has sent the request to a fresh     *)
(* VM, run_vmm_action handles it and the API side receives the response.   *)
(***************************************************************************)
ValidationDims == {0, 1, 2, 16, 127, 128, 255}
ValidationThreads == {0, 1, 2, 3, 255}
ValidationVcpuCounts == {0, 1, 2, 254, 255}
ValidationMemSizes ==
    {0, 1, 2, 3, 4, 127, 128, 1048574, 1048575, 1048576, 1048577, 1048578, 2097152}

ValidationTopologyPayloads ==
    {[DefaultVmConfigInfo EXCEPT !.vcpu_count = v, !.max_vcpu_count = 255,
                                 !.cpu_topology = CpuTopology(t, c, d, s)] :
        v \in ValidationVcpuCounts, t \in ValidationThreads,
        c \in ValidationDims, d \in ValidationDims, s \in ValidationDims}
ValidationMemPayloads ==
    {[DefaultVmConfigInfo EXCEPT !.mem_size_mib = m, !.mem_type = ty,
                                 !.mem_file_path = path] :
        m \in ValidationMemSizes, ty \in {"shmem", "hugetlbfs"},
        path \in {"", "/dev/hugepages"}}
ValidationPayloads == ValidationTopologyPayloads \cup ValidationMemPayloads

InitValidation ==
    /\ vm_present = TRUE
    /\ hotplug = FALSE
    /\ instance_state = "Uninitialized"
    /\ kernel_config = None
    /\ vm_config = DefaultVmConfigInfo
    /\ machine_config = DefaultVmConfigInfo
    /\ exit_evt_triggered = FALSE
    /\ \E c \in ValidationPayloads :
            from_api = <<Request("SetVmConfiguration", Some(c))>>
    /\ to_api = <<>>
    /\ sender_alive = TRUE
    /\ receiver_alive = TRUE
    /\ awaiting = TRUE
    /\ n_client_ops = 1
    /\ n_submitted = 1
    /\ n_dequeued = 0
    /\ n_sent = 0
    /\ boot_source_configured = FALSE
    /\ start_succeeded = FALSE
    /\ panicked = FALSE
    /\ last = NoCall

NextValidation == run_vmm_action \/ Receive

SpecValidation == InitValidation /\ [][NextValidation]_vars

(***************************************************************************)
(* A third specification: an API side that does not wait for a response    *)
(* before it sends the next request.  The request channel is an            *)
(* std::sync::mpsc channel: a send never blocks and requests queue up.     *)
(* Neither channel half is dropped and the responses stay on the response  *)
(* channel, which then holds every response in the order it was sent.      *)
(***************************************************************************)
PipelinedRequests ==
    {Request("InsertVsockDevice", Some(cid)) : cid \in {0, 2}}
    \cup {Request("SetVmConfiguration",
                  Some([DefaultVmConfigInfo EXCEPT !.vcpu_count = 2,
                                                   !.max_vcpu_count = 2]))}
    \cup {Request("GetVmConfiguration", None)}

SubmitPipelined ==
    /\ ~panicked /\ sender_alive
    /\ n_client_ops < MaxClientOps
    /\ \E request \in PipelinedRequests : from_api' = Append(from_api, request)
    /\ awaiting' = TRUE
    /\ n_submitted' = n_submitted + 1
    /\ n_client_ops' = n_client_ops + 1
    /\ UNCHANGED <<vm_vars, to_api, sender_alive, receiver_alive, n_dequeued, n_sent,
                   boot_source_configured, start_succeeded, panicked, last>>

NextPipelined == SubmitPipelined \/ run_vmm_action

SpecPipelined == Init /\ [][NextPipelined]_vars

\* The same, with the dispatcher step invoked again and again by its event loop.
SpecPipelinedFair == SpecPipelined /\ WF_vars(run_vmm_action)

(***************************************************************************)
(* Properties                                                              *)
(***************************************************************************)
\* This step is a run_vmm_action call that dequeues a request of the given kind.
Handles(kind) ==
    /\ from_api # <<>>
    /\ Head(from_api).kind = kind
    /\ n_dequeued' = n_dequeued + 1

\* The most recent call answered a request of the given kind.
Answered(kind) ==
    /\ last.outcome = "responded"
    /\ last.req[1].kind = kind

\* The mathematical product of the four topology dimensions.
TopologyProduct(t) ==
    t.threads_per_core * t.cores_per_die * t.dies_per_socket * t.sockets

\* C1: every run_vmm_action call that dequeues a request and returns sends
\* exactly one response, the result of that request, on the response channel;
\* as long as no call has panicked, the number of responses sent equals the
\* number of requests dequeued.
C1_OneResponsePerRequest ==
    /\ [][(n_dequeued' # n_dequeued /\ ~panicked') =>
            /\ n_dequeued' = n_dequeued + 1
            /\ n_sent' = n_sent + 1
            /\ to_api' = Append(to_api, last'.resp[1])]_vars
    /\ [](~panicked => n_sent = n_dequeued)

C1_Witness ==
    /\ ~panicked
    /\ n_dequeued >= 2
    /\ n_sent = n_dequeued
    /\ last.outcome = "responded"
    /\ last.resp[1].tag = "Err"

\* C2: a SetVmConfiguration that returns an error leaves the VM's machine
\* configuration and the dispatcher's cached configuration as they were.
C2_FailedSetLeavesConfig ==
    [][(Handles("SetVmConfiguration") /\ last'.resp[1].tag = "Err") =>
            (vm_config' = vm_config /\ machine_config' = machine_config)]_vars

\* A request that changes the CPU fields and the memory type and fails at the
\* last check (the memory file path), after an earlier request has succeeded.
C2_Witness ==
    /\ Answered("SetVmConfiguration")
    /\ last.resp[1] = MachineConfig("InvalidMemFilePath", Some(""))
    /\ vm_config # DefaultVmConfigInfo
    /\ vm_config.mem_type # "hugetlbfs"
    /\ machine_config = vm_config

\* C3: on an initialized VM SetVmConfiguration returns
\* MachineConfig(UpdateNotAllowedPostBoot) whatever the payload, and neither
\* configuration changes in a step that leaves the VM initialized.
C3_SetRejectedPostBoot ==
    /\ [][(Handles("SetVmConfiguration") /\ is_vm_initialized(instance_state)) =>
            /\ last'.resp[1] = MachineConfig("UpdateNotAllowedPostBoot", None)
            /\ vm_config' = vm_config
            /\ machine_config' = machine_config]_vars
    /\ [][(is_vm_initialized(instance_state) /\ is_vm_initialized(instance_state')) =>
            (vm_config' = vm_config /\ machine_config' = machine_config)]_vars

\* A payload that would have been accepted before boot is rejected after it.
C3_Witness ==
    /\ Answered("SetVmConfiguration")
    /\ instance_state = "Running"
    /\ last.req[1].payload[1].vcpu_count = 2
    /\ last.req[1].payload[1].max_vcpu_count = 2
    /\ last.req[1].payload[1].cpu_topology = CpuTopology(2, 1, 1, 1)
    /\ last.resp[1] = MachineConfig("UpdateNotAllowedPostBoot", None)

\* C4: on an initialized VM ConfigureBootSource returns
\* BootSource(UpdateNotAllowedPostBoot) whatever the payload, opens no file and
\* leaves the installed kernel configuration unchanged.
C4_BootSourceRejectedPostBoot ==
    [][(Handles("ConfigureBootSource") /\ is_vm_initialized(instance_state)) =>
            /\ last'.resp[1] = BootSource("UpdateNotAllowedPostBoot", None)
            /\ last'.opened = {}
            /\ kernel_config' = kernel_config]_vars

\* A payload naming an existing kernel file is rejected after boot.
C4_Witness ==
    /\ Answered("ConfigureBootSource")
    /\ is_vm_initialized(instance_state)
    /\ last.req[1].payload[1].kernel_path \in ExistingFiles
    /\ last.resp[1] = BootSource("UpdateNotAllowedPostBoot", None)
    /\ last.opened = {}

\* C5: StartMicroVm on an initialized VM returns
\* StartMicroVm(MicroVMAlreadyRunning) without invoking the boot sequence, and
\* once a StartMicroVm has succeeded every later one gets that error.
C5_StartRejectedWhenRunning ==
    /\ [][(Handles("StartMicroVm") /\ is_vm_initialized(instance_state)) =>
            /\ last'.resp[1] = StartMicroVm("MicroVMAlreadyRunning")
            /\ ~last'.boot_invoked
            /\ instance_state' = instance_state]_vars
    /\ [][(Handles("StartMicroVm") /\ start_succeeded) =>
            /\ last'.resp[1] = StartMicroVm("MicroVMAlreadyRunning")
            /\ ~last'.boot_invoked]_vars

C5_Witness ==
    /\ Answered("StartMicroVm")
    /\ start_succeeded
    /\ instance_state = "Running"
    /\ last.resp[1] = StartMicroVm("MicroVMAlreadyRunning")
    /\ ~last.boot_invoked

\* C6: StartMicroVm on an uninitialized VM returns
\* StartMicroVm(MissingKernelConfig) exactly when no ConfigureBootSource has
\* succeeded before it, and then the VM stays uninitialized.
C6_MissingKernelConfig ==
    [][(Handles("StartMicroVm") /\ vm_present /\ ~is_vm_initialized(instance_state)) =>
            /\ (last'.resp[1] = StartMicroVm("MissingKernelConfig"))
                    <=> ~boot_source_configured
            /\ (last'.resp[1] = StartMicroVm("MissingKernelConfig"))
                    => instance_state' = "Uninitialized"]_vars

\* StartMicroVm after a ConfigureBootSource that failed.
C6_Witness ==
    /\ Answered("StartMicroVm")
    /\ n_dequeued >= 2
    /\ ~boot_source_configured
    /\ instance_state = "Uninitialized"
    /\ last.resp[1] = StartMicroVm("MissingKernelConfig")
    /\ last.boot_invoked

\* C7: SetVmConfiguration is idempotent: a request that has just succeeded,
\* submitted again as the next request, succeeds again and leaves the stored
\* configuration as the first application left it.
C7_SetIdempotent ==
    [][(/\ Handles("SetVmConfiguration")
        /\ Answered("SetVmConfiguration")
        /\ last.req[1] = Head(from_api)
        /\ last.resp[1] = OkEmpty) =>
            /\ last'.resp[1] = OkEmpty
            /\ vm_config' = vm_config
            /\ machine_config' = machine_config]_vars

\* C8: the stored machine configuration respects the hardware ceiling: the
\* product of the stored topology dimensions, the stored vcpu_count and the
\* stored max_vcpu_count are all at most MAX_SUPPORTED_VCPUS.
C8_StoredWithinCeiling ==
    /\ TopologyProduct(vm_config.cpu_topology) <= MAX_SUPPORTED_VCPUS
    /\ vm_config.vcpu_count <= MAX_SUPPORTED_VCPUS
    /\ vm_config.max_vcpu_count <= MAX_SUPPORTED_VCPUS

\* C9: the stored max_vcpu_count equals the product of the four stored
\* topology dimensions, and the stored vcpu_count is at most the stored
\* max_vcpu_count.
C9_MaxVcpuIsTopologyProduct ==
    /\ vm_config.max_vcpu_count = TopologyProduct(vm_config.cpu_topology)
    /\ vm_config.vcpu_count <= vm_config.max_vcpu_count
    /\ machine_config.max_vcpu_count = TopologyProduct(machine_config.cpu_topology)
    /\ machine_config.vcpu_count <= machine_config.max_vcpu_count

\* A stored configuration whose max_vcpu_count is not the value the caller sent.
C9_Witness ==
    /\ Answered("SetVmConfiguration")
    /\ last.resp[1] = OkEmpty
    /\ vm_config.cpu_topology = CpuTopology(2, 2, 2, 2)
    /\ vm_config.max_vcpu_count = 16
    /\ last.req[1].payload[1].max_vcpu_count # vm_config.max_vcpu_count

\* C10: a SetVmConfiguration on an uninitialized VM that supplies a topology
\* which passes validation, with vcpu_count >= 1, max_vcpu_count >= vcpu_count,
\* max_vcpu_count different from the topology product and valid memory fields,
\* succeeds and stores the topology product as max_vcpu_count.
C10_TopologyProductWins ==
    [][(/\ Handles("SetVmConfiguration")
        /\ vm_present
        /\ ~is_vm_initialized(instance_state)
        /\ LET mc == Head(from_api).payload[1] IN
            /\ mc.vcpu_count >= 1
            /\ mc.cpu_topology # DefaultVmConfigInfo.cpu_topology
            /\ handle_cpu_topology(mc.cpu_topology, mc.vcpu_count).err = None
            /\ mc.max_vcpu_count >= mc.vcpu_count
            /\ mc.max_vcpu_count # TopologyProduct(mc.cpu_topology)
            /\ apply_memory(vm_config, mc).err = None) =>
            /\ last'.resp[1] = OkEmpty
            /\ vm_config'.max_vcpu_count =
                   TopologyProduct(Head(from_api).payload[1].cpu_topology)]_vars

\* The CPU fields of a request pass set_vm_configuration's CPU checks against
\* the stored configuration: vcpu_count >= 1, the topology equal to the stored
\* one or valid for vcpu_count, and max_vcpu_count >= vcpu_count.
TopologyStepPasses(stored, mc) ==
    \/ mc.cpu_topology = stored.cpu_topology
    \/ handle_cpu_topology(mc.cpu_topology, mc.vcpu_count).err = None
CpuFieldsValid(stored, mc) ==
    /\ mc.vcpu_count >= 1
    /\ TopologyStepPasses(stored, mc)
    /\ mc.max_vcpu_count >= mc.vcpu_count

\* C11: a SetVmConfiguration on an uninitialized VM with max_vcpu_count <
\* vcpu_count gets an error response and leaves both configurations unchanged;
\* the error is MachineConfig(InvalidMaxVcpuCount(max_vcpu_count)) when
\* vcpu_count >= 1 and the topology is unchanged or valid.
C11_MaxBelowVcpuRejected ==
    [][(/\ Handles("SetVmConfiguration")
        /\ vm_present
        /\ ~is_vm_initialized(instance_state)
        /\ Head(from_api).payload[1].max_vcpu_count
               < Head(from_api).payload[1].vcpu_count) =>
            LET mc == Head(from_api).payload[1] IN
            /\ last'.resp[1].tag = "Err"
            /\ vm_config' = vm_config
            /\ machine_config' = machine_config
            /\ (mc.vcpu_count >= 1 /\ TopologyStepPasses(vm_config, mc)) =>
                   last'.resp[1] =
                       MachineConfig("InvalidMaxVcpuCount", Some(mc.max_vcpu_count))]_vars

\* A request that changes the topology to a valid one and has max_vcpu_count
\* below vcpu_count.
C11_Witness ==
    /\ Answered("SetVmConfiguration")
    /\ instance_state = "Uninitialized"
    /\ last.req[1].payload[1].vcpu_count = 2
    /\ last.req[1].payload[1].cpu_topology = CpuTopology(2, 1, 1, 1)
    /\ last.resp[1] = MachineConfig("InvalidMaxVcpuCount", Some(1))
    /\ vm_config = DefaultVmConfigInfo

\* C12: for every topology whose threads_per_core is neither 1 nor 2,
\* handle_cpu_topology fails with MachineConfig(InvalidThreadsPerCore(
\* threads_per_core)) whatever the other dimensions and the vcpu_count, and a
\* SetVmConfiguration carrying it with vcpu_count >= 1 gets that response.
C12_InvalidThreadsPerCore ==
    [][Handles("SetVmConfiguration") =>
            LET mc == Head(from_api).payload[1]
                t == mc.cpu_topology.threads_per_core
            IN  (t # 1 /\ t # 2) =>
                    /\ handle_cpu_topology(mc.cpu_topology, mc.vcpu_count).err =
                           Some(MachineConfig("InvalidThreadsPerCore", Some(t)))
                    /\ (mc.vcpu_count >= 1) =>
                           last'.resp[1] = MachineConfig("InvalidThreadsPerCore", Some(t))]_vars

\* threads_per_core 255 on a topology whose product overflows.
C12_Witness ==
    /\ Answered("SetVmConfiguration")
    /\ last.req[1].payload[1].cpu_topology = CpuTopology(255, 255, 255, 255)
    /\ last.req[1].payload[1].vcpu_count = 254
    /\ last.resp[1] = MachineConfig("InvalidThreadsPerCore", Some(255))

\* Some product on the way from sockets to the full product does not fit in
\* 8 bits, in the order handle_cpu_topology multiplies.
ProductOverflows(t) ==
    \/ t.sockets * t.dies_per_socket > 255
    \/ t.sockets * t.dies_per_socket * t.cores_per_die > 255
    \/ TopologyProduct(t) > 255

\* C13 as stated: for every topology whose product exceeds 254 or overflows
\* 8-bit multiplication, handle_cpu_topology fails with
\* MachineConfig(VcpuCountExceedsMaximum).
C13_CeilingWhateverThreads ==
    [][Handles("SetVmConfiguration") =>
            LET mc == Head(from_api).payload[1]
                topo == mc.cpu_topology
            IN  (TopologyProduct(topo) > MAX_SUPPORTED_VCPUS \/ ProductOverflows(topo)) =>
                    handle_cpu_topology(topo, mc.vcpu_count).err =
                        Some(MachineConfig("VcpuCountExceedsMaximum", None))]_vars

\* C13, amended: for every topology with threads_per_core in {1,2} whose
\* product exceeds 254 or overflows 8-bit multiplication, handle_cpu_topology
\* fails with MachineConfig(VcpuCountExceedsMaximum), and a SetVmConfiguration
\* carrying it with vcpu_count >= 1 gets that response.
C13_CeilingValidThreads ==
    [][Handles("SetVmConfiguration") =>
            LET mc == Head(from_api).payload[1]
                topo == mc.cpu_topology
            IN  (/\ topo.threads_per_core \in {1, 2}
                 /\ (TopologyProduct(topo) > MAX_SUPPORTED_VCPUS \/ ProductOverflows(topo))) =>
                    /\ handle_cpu_topology(topo, mc.vcpu_count).err =
                           Some(MachineConfig("VcpuCountExceedsMaximum", None))
                    /\ (mc.vcpu_count >= 1) =>
                           last'.resp[1] = MachineConfig("VcpuCountExceedsMaximum", None)]_vars

\* A product of exactly 255: no overflow, above the ceiling.
C13_Witness ==
    /\ Answered("SetVmConfiguration")
    /\ last.req[1].payload[1].cpu_topology = CpuTopology(1, 255, 1, 1)
    /\ last.resp[1] = MachineConfig("VcpuCountExceedsMaximum", None)
    /\ vm_config = DefaultVmConfigInfo

\* C14 as stated: for every topology with threads_per_core in {1,2} whose
\* mathematical product p is at most 254 and below the requested vcpu_count,
\* handle_cpu_topology fails with MachineConfig(InvalidCpuTopology(p)), and it
\* returns VcpuCountExceedsMaximum only when p exceeds 254.
C14_BelowVcpuCountMathematical ==
    [][Handles("SetVmConfiguration") =>
            LET mc == Head(from_api).payload[1]
                topo == mc.cpu_topology
                p == TopologyProduct(topo)
                r == handle_cpu_topology(topo, mc.vcpu_count)
            IN  /\ (/\ topo.threads_per_core \in {1, 2}
                    /\ p <= MAX_SUPPORTED_VCPUS
                    /\ p < mc.vcpu_count) =>
                        r.err = Some(MachineConfig("InvalidCpuTopology", Some(p)))
                /\ (r.err = Some(MachineConfig("VcpuCountExceedsMaximum", None))) =>
                        p > MAX_SUPPORTED_VCPUS]_vars

\* C14, amended: for every topology with threads_per_core in {1,2} of which no
\* partial product overflows 8 bits and whose product p is at most 254 and
\* below the requested vcpu_count, handle_cpu_topology fails with
\* MachineConfig(InvalidCpuTopology(p)) and a SetVmConfiguration carrying it
\* gets that response; VcpuCountExceedsMaximum is returned only when p exceeds
\* 254 or a partial product overflows.
C14_BelowVcpuCountChecked ==
    [][Handles("SetVmConfiguration") =>
            LET mc == Head(from_api).payload[1]
                topo == mc.cpu_topology
                p == TopologyProduct(topo)
                r == handle_cpu_topology(topo, mc.vcpu_count)
            IN  /\ (/\ topo.threads_per_core \in {1, 2}
                    /\ ~ProductOverflows(topo)
                    /\ p <= MAX_SUPPORTED_VCPUS
                    /\ p < mc.vcpu_count) =>
                        /\ r.err = Some(MachineConfig("InvalidCpuTopology", Some(p)))
                        /\ (topo # vm_config.cpu_topology) =>
                               last'.resp[1] = MachineConfig("InvalidCpuTopology", Some(p))
                /\ (r.err = Some(MachineConfig("VcpuCountExceedsMaximum", None))) =>
                        (p > MAX_SUPPORTED_VCPUS \/ ProductOverflows(topo))]_vars

\* A zero dimension: the product 0 is below every vcpu_count >= 1.
C14_Witness ==
    /\ Answered("SetVmConfiguration")
    /\ last.req[1].payload[1].cpu_topology = CpuTopology(2, 0, 127, 2)
    /\ last.req[1].payload[1].vcpu_count = 1
    /\ last.resp[1] = MachineConfig("InvalidCpuTopology", Some(0))

\* C15: a SetVmConfiguration on an uninitialized VM whose CPU fields are valid
\* gets MachineConfig(InvalidMemorySize(mem_size_mib)) when mem_size_mib is 0,
\* odd or above 0x10_0000, and no InvalidMemorySize error when it is an even
\* value in [2, 0x10_0000].
C15_MemorySizeCheck ==
    [][(/\ Handles("SetVmConfiguration")
        /\ vm_present
        /\ ~is_vm_initialized(instance_state)
        /\ CpuFieldsValid(vm_config, Head(from_api).payload[1])) =>
            LET m == Head(from_api).payload[1].mem_size_mib IN
            IF m = 0 \/ m % 2 = 1 \/ m > 1048576
            THEN /\ last'.resp[1] = MachineConfig("InvalidMemorySize", Some(m))
                 /\ vm_config' = vm_config
            ELSE last'.resp[1].reason # "InvalidMemorySize"]_vars

\* The upper boundary 0x10_0000 is accepted and stored.
C15_Witness ==
    /\ Answered("SetVmConfiguration")
    /\ last.req[1].payload[1].mem_size_mib = 1048576
    /\ last.resp[1] = OkEmpty
    /\ vm_config.mem_size_mib = 1048576

\* C16: a SetVmConfiguration with vcpu_count = 0 on an uninitialized VM gets
\* MachineConfig(InvalidVcpuCount(0)), and the stored vcpu_count is at least 1
\* in every reachable state.
C16_VcpuCountAtLeastOne ==
    /\ [][(/\ Handles("SetVmConfiguration")
           /\ vm_present
           /\ ~is_vm_initialized(instance_state)
           /\ Head(from_api).payload[1].vcpu_count = 0) =>
               last'.resp[1] = MachineConfig("InvalidVcpuCount", Some(0))]_vars
    /\ [](vm_config.vcpu_count >= 1 /\ machine_config.vcpu_count >= 1)

\* vcpu_count 0 is rejected after an earlier request has changed the stored
\* configuration.
C16_Witness ==
    /\ Answered("SetVmConfiguration")
    /\ last.req[1].payload[1].vcpu_count = 0
    /\ last.resp[1] = MachineConfig("InvalidVcpuCount", Some(0))
    /\ vm_config.vcpu_count = 2

\* mem_size_mib passes the memory-size check.
MemorySizeValid(m) == m # 0 /\ m <= 1048576 /\ m % 2 = 0

\* C17 as stated: a SetVmConfiguration (on an uninitialized VM) whose mem_type
\* is "hugetlbfs" and whose mem_file_path is empty gets
\* MachineConfig(InvalidMemFilePath), and no stored configuration has mem_type
\* "hugetlbfs" with an empty mem_file_path.
C17_HugetlbfsNeedsFilePath ==
    /\ [][(/\ Handles("SetVmConfiguration")
           /\ vm_present
           /\ ~is_vm_initialized(instance_state)
           /\ Head(from_api).payload[1].mem_type = "hugetlbfs"
           /\ Head(from_api).payload[1].mem_file_path = "") =>
               last'.resp[1] = MachineConfig("InvalidMemFilePath", Some(""))]_vars
    /\ [](~(vm_config.mem_type = "hugetlbfs" /\ vm_config.mem_file_path = ""))

\* C17, amended: such a request always gets an error and changes nothing; the
\* error is MachineConfig(InvalidMemFilePath) when the CPU fields and
\* mem_size_mib are valid; no stored configuration has mem_type "hugetlbfs"
\* with an empty mem_file_path.
C17_HugetlbfsNeedsFilePathIfReached ==
    /\ [][(/\ Handles("SetVmConfiguration")
           /\ vm_present
           /\ ~is_vm_initialized(instance_state)
           /\ Head(from_api).payload[1].mem_type = "hugetlbfs"
           /\ Head(from_api).payload[1].mem_file_path = "") =>
               LET mc == Head(from_api).payload[1] IN
               /\ last'.resp[1].tag = "Err"
               /\ vm_config' = vm_config
               /\ machine_config' = machine_config
               /\ (CpuFieldsValid(vm_config, mc) /\ MemorySizeValid(mc.mem_size_mib)) =>
                      last'.resp[1] = MachineConfig("InvalidMemFilePath", Some(""))]_vars
    /\ [](~(vm_config.mem_type = "hugetlbfs" /\ vm_config.mem_file_path = ""))
    /\ [](~(machine_config.mem_type = "hugetlbfs" /\ machine_config.mem_file_path = ""))

\* The request is rejected while the stored configuration is huge-page backed
\* with a file path from an earlier request.
C17_Witness ==
    /\ Answered("SetVmConfiguration")
    /\ last.req[1].payload[1].mem_type = "hugetlbfs"
    /\ last.req[1].payload[1].mem_file_path = ""
    /\ last.resp[1] = MachineConfig("InvalidMemFilePath", Some(""))
    /\ vm_config.mem_type = "hugetlbfs"
    /\ vm_config.mem_file_path = "/dev/hugepages"

\* C18: after a successful SetVmConfiguration the stored serial_path is the
\* request's if it supplies one, else the previously stored one if there is
\* one, else "/run/dragonball/<vm id>_com1".
C18_SerialPathResolution ==
    [][(Handles("SetVmConfiguration") /\ last'.resp[1] = OkEmpty) =>
            LET mc == Head(from_api).payload[1]
                expected ==
                    IF mc.serial_path # None THEN mc.serial_path[1]
                    ELSE IF vm_config.serial_path # None THEN vm_config.serial_path[1]
                    ELSE "/run/dragonball/vm0_com1"
            IN  /\ vm_config'.serial_path = Some(expected)
                /\ machine_config'.serial_path = Some(expected)]_vars

\* A serial path set by an earlier request is kept by a request without one.
C18_Witness ==
    /\ Answered("SetVmConfiguration")
    /\ last.resp[1] = OkEmpty
    /\ last.req[1].payload[1].serial_path = None
    /\ vm_config.serial_path = Some("/tmp/com1")

\* C19: a successful SetVmConfiguration whose request supplies a topology (one
\* that differs from the default value) which passes validation stores that
\* topology, also when it equals the topology already stored; the stored
\* topology differs from the request's only when the request left the topology
\* at its default value, and then it is the synthesized one.
C19_CallerTopologyKept ==
    [][(Handles("SetVmConfiguration") /\ last'.resp[1] = OkEmpty) =>
            LET mc == Head(from_api).payload[1]
                cores == IF mc.max_vcpu_count > mc.vcpu_count
                         THEN mc.max_vcpu_count ELSE mc.vcpu_count
            IN  /\ (/\ mc.cpu_topology # DefaultVmConfigInfo.cpu_topology
                    /\ handle_cpu_topology(mc.cpu_topology, mc.vcpu_count).err = None) =>
                        vm_config'.cpu_topology = mc.cpu_topology
                /\ (vm_config'.cpu_topology # mc.cpu_topology) =>
                        /\ mc.cpu_topology = DefaultVmConfigInfo.cpu_topology
                        /\ vm_config'.cpu_topology = CpuTopology(1, cores, 1, 1)]_vars

\* C20: GetVmConfiguration answers, in every state, with Ok and the cached
\* configuration and changes nothing on the VM or in the cache; the cached
\* configuration is the default until a SetVmConfiguration succeeds, changes
\* only in a successful SetVmConfiguration, and is then what that call stored
\* on the VM.
C20_GetReturnsLastApplied ==
    /\ machine_config = DefaultVmConfigInfo
    /\ [][Handles("GetVmConfiguration") =>
            /\ last'.resp[1] = OkMachineConfiguration(machine_config)
            /\ UNCHANGED vm_vars]_vars
    /\ [][(machine_config' # machine_config) =>
            (Handles("SetVmConfiguration") /\ last'.resp[1] = OkEmpty)]_vars
    /\ [][(Handles("SetVmConfiguration") /\ last'.resp[1] = OkEmpty) =>
            machine_config' = vm_config']_vars

\* GetVmConfiguration returns what an earlier successful SetVmConfiguration stored.
C20_Witness ==
    /\ Answered("GetVmConfiguration")
    /\ last.resp[1] = OkMachineConfiguration(machine_config)
    /\ machine_config.vcpu_count = 2
    /\ machine_config.cpu_topology = CpuTopology(2, 1, 1, 1)

HandlerResult(ClassError(_), handler_outcome) ==
    IF handler_outcome = None THEN OkEmpty ELSE ClassError(handler_outcome[1])
VsockError(reason) == Vsock(reason, None)

\* C22: InsertVsockDevice on an uninitialized VM with guest_cid <= 2 returns
\* Vsock(GuestCIDInvalid(guest_cid)) without requesting a context or calling
\* the vsock handler; with guest_cid >= 3 a context is requested, the handler
\* is called and the response is the handler's result.
C22_GuestCidPrecheck ==
    [][(/\ Handles("InsertVsockDevice")
        /\ vm_present
        /\ ~is_vm_initialized(instance_state)) =>
            LET guest_cid == Head(from_api).payload[1] IN
            IF guest_cid <= 2
            THEN /\ last'.resp[1] = Vsock("GuestCIDInvalid", Some(guest_cid))
                 /\ ~last'.ctx_requested
                 /\ last'.handler = "none"
            ELSE /\ last'.ctx_requested
                 /\ last'.handler = "vsock.insert_device"
                 /\ last'.resp[1] = HandlerResult(VsockError, last'.env[1].handler)]_vars

\* The host's CID 2 is rejected before a context is requested.
C22_Witness ==
    /\ Answered("InsertVsockDevice")
    /\ instance_state = "Uninitialized"
    /\ last.req[1].payload[1] = 2
    /\ last.resp[1] = Vsock("GuestCIDInvalid", Some(2))
    /\ ~last.ctx_requested
    /\ last.handler = "none"

\* The device actions that obtain a device-operation context.
ContextKinds ==
    {"InsertBlockDevice", "RemoveBlockDevice", "InsertNetworkDevice",
     "InsertFsDevice", "InsertVsockDevice"}

\* In this step a request of the given kinds asked for a device-operation
\* context and did not get one.  CtxError is the cause of that failure for
\* the most recent call.
CtxFailed(kinds) ==
    /\ from_api # <<>>
    /\ Head(from_api).kind \in kinds
    /\ n_dequeued' = n_dequeued + 1
    /\ vm_present
    /\ last'.ctx_requested
    /\ create_device_op_context(instance_state, hotplug, last'.env[1].upcall) # None
CtxError == create_device_op_context(instance_state, hotplug, last.env[1].upcall)[1]

\* C23: when a device action fails to obtain its device-operation context
\* because the upcall channel is not ready, the response is UpcallNotReady.
C23_UpcallNotReadySurfaced ==
    [][(/\ CtxFailed(ContextKinds)
        /\ create_device_op_context(instance_state, hotplug, last'.env[1].upcall)
               = Some("UpcallNotReady")) =>
            last'.resp[1] = UpcallNotReady]_vars

\* C24: ManipulateFsBackendFs and UpdateFsDevice on a VM that is not
\* initialized return FsDevice(MicroVMNotRunning) without calling the
\* filesystem handler; on an initialized VM the handler is called and the
\* response is its result.
C24_FsBackendNeedsRunningVm ==
    [][(/\ (Handles("ManipulateFsBackendFs") \/ Handles("UpdateFsDevice"))
        /\ vm_present) =>
            IF ~is_vm_initialized(instance_state)
            THEN /\ last'.resp[1] = FsDevice("MicroVMNotRunning")
                 /\ last'.handler = "none"
            ELSE /\ last'.handler =
                        (IF Head(from_api).kind = "ManipulateFsBackendFs"
                         THEN "fs.manipulate_backend_fs"
                         ELSE "fs.update_device_ratelimiters")
                 /\ last'.resp[1] = HandlerResult(FsDevice, last'.env[1].handler)]_vars

\* ManipulateFsBackendFs before boot, after an earlier request was handled.
C24_Witness ==
    /\ Answered("ManipulateFsBackendFs")
    /\ vm_present
    /\ instance_state = "Uninitialized"
    /\ n_dequeued >= 2
    /\ last.resp[1] = FsDevice("MicroVMNotRunning")
    /\ last.handler = "none"

\* C25: UpdateBlockDevice and UpdateNetworkInterface on a VM that is not
\* initialized get an error without the block / network handler being called.
C25_RateLimiterUpdateNeedsRunningVm ==
    [][(/\ (Handles("UpdateBlockDevice") \/ Handles("UpdateNetworkInterface"))
        /\ vm_present
        /\ ~is_vm_initialized(instance_state)) =>
            /\ last'.resp[1].tag = "Err"
            /\ last'.handler = "none"]_vars

\* The error variant and the class handler of a device insert / remove action.
ClassErrorOf(kind, reason) ==
    CASE kind \in {"InsertBlockDevice", "RemoveBlockDevice"} -> Block(reason)
      [] kind = "InsertFsDevice" -> FsDevice(reason)
      [] kind = "InsertVsockDevice" -> Vsock(reason, None)
      [] kind = "InsertNetworkDevice" -> VirtioNet(reason)
ClassHandlerOf(kind) ==
    CASE kind = "InsertBlockDevice" -> "blk.insert_device"
      [] kind = "RemoveBlockDevice" -> "blk.remove_device"
      [] kind = "InsertFsDevice" -> "fs.insert_device"
      [] kind = "InsertVsockDevice" -> "vsock.insert_device"
      [] kind = "InsertNetworkDevice" -> "net.insert_device"

\* C26: for InsertBlockDevice, RemoveBlockDevice, InsertFsDevice and
\* InsertVsockDevice, on an initialized VM for which no hot-plug context can be
\* obtained, for a cause other than upcall-not-ready, the response is the
\* class's UpdateNotAllowedPostBoot error and the class handler is not called;
\* on an uninitialized VM (for vsock, with a guest CID that passes the
\* pre-check) the class handler is called and the response is its result.
C26_PostBootRejection ==
    [][(/\ from_api # <<>>
        /\ Head(from_api).kind \in {"InsertBlockDevice", "RemoveBlockDevice",
                                    "InsertFsDevice", "InsertVsockDevice"}
        /\ n_dequeued' = n_dequeued + 1
        /\ vm_present) =>
            LET kind == Head(from_api).kind
                ctx == create_device_op_context(instance_state, hotplug,
                                                last'.env[1].upcall)
            IN  /\ (/\ is_vm_initialized(instance_state)
                    /\ ctx # None
                    /\ ctx # Some("UpcallNotReady")) =>
                        /\ last'.resp[1] = ClassErrorOf(kind, "UpdateNotAllowedPostBoot")
                        /\ last'.handler = "none"
                /\ (/\ ~is_vm_initialized(instance_state)
                    /\ (kind = "InsertVsockDevice" => Head(from_api).payload[1] >= 3)) =>
                        /\ last'.handler = ClassHandlerOf(kind)
                        /\ last'.resp[1] =
                               IF last'.env[1].handler = None THEN OkEmpty
                               ELSE ClassErrorOf(kind, last'.env[1].handler[1])]_vars

\* RemoveBlockDevice on a running VM of a build without hot-plug.
C26_Witness ==
    /\ Answered("RemoveBlockDevice")
    /\ instance_state = "Running"
    /\ ~hotplug
    /\ last.ctx_requested
    /\ last.resp[1] = Block("UpdateNotAllowedPostBoot")
    /\ last.handler = "none"

SubsystemOf(kind) ==
    CASE kind = "ConfigureBootSource" -> "BootSource"
      [] kind = "StartMicroVm" -> "StartMicroVm"
      [] kind = "ShutdownMicroVm" -> "StopMicrovm"
      [] kind \in {"GetVmConfiguration", "SetVmConfiguration"} -> "MachineConfig"
      [] kind = "InsertVsockDevice" -> "Vsock"
      [] kind \in {"InsertBlockDevice", "UpdateBlockDevice", "RemoveBlockDevice"} -> "Block"
      [] kind \in {"InsertNetworkDevice", "UpdateNetworkInterface"} -> "VirtioNet"
      [] kind \in {"InsertFsDevice", "ManipulateFsBackendFs", "UpdateFsDevice"} -> "FsDevice"

\* C28: every error response carries the variant of the action's own
\* subsystem, or is InvalidVMID or UpcallNotReady.
C28_ErrorNamesOwnSubsystem ==
    (last.req # None /\ last.resp[1].tag = "Err") =>
        last.resp[1].sub \in {SubsystemOf(last.req[1].kind), "InvalidVMID", "UpcallNotReady"}

\* C29: without a VM instance every action but ShutdownMicroVm and
\* GetVmConfiguration returns InvalidVMID, opens no file, requests no context,
\* calls neither the boot sequence nor a handler, and changes no state.
C29_InvalidVmidFirst ==
    [][(/\ from_api # <<>>
        /\ Head(from_api).kind \notin {"ShutdownMicroVm", "GetVmConfiguration"}
        /\ n_dequeued' = n_dequeued + 1
        /\ ~vm_present) =>
            /\ last'.resp[1] = InvalidVMID
            /\ last'.opened = {}
            /\ ~last'.ctx_requested
            /\ ~last'.boot_invoked
            /\ last'.handler = "none"
            /\ UNCHANGED vm_vars]_vars

\* ConfigureBootSource with an existing kernel file and no VM instance.
C29_Witness ==
    /\ Answered("ConfigureBootSource")
    /\ ~vm_present
    /\ last.req[1].payload[1].kernel_path \in ExistingFiles
    /\ last.resp[1] = InvalidVMID
    /\ last.opened = {}
    /\ kernel_config = None

\* C30: a run_vmm_action call on an empty request channel whose sender is
\* still connected returns without panicking, sends no response and leaves
\* the VM, its configurations, the cached configuration and the exit flag
\* unchanged.  (Only run_vmm_action changes `last`.)
C30_EmptyPollIsNoOp ==
    [][(from_api = <<>> /\ sender_alive /\ last' # last) =>
            /\ last'.outcome = "spurious"
            /\ ~panicked'
            /\ to_api' = to_api
            /\ n_sent' = n_sent
            /\ n_dequeued' = n_dequeued
            /\ UNCHANGED vm_vars]_vars

\* A spurious notification after a request has been handled and stored a
\* configuration.
C30_Witness ==
    /\ last.outcome = "spurious"
    /\ ~panicked
    /\ n_dequeued >= 1
    /\ n_sent = n_dequeued
    /\ vm_config # DefaultVmConfigInfo

\* C31: a run_vmm_action call on an empty request channel whose sender has
\* been dropped panics, sends no response and does nothing to the VM.
\* (Only run_vmm_action changes `last`.)
C31_DisconnectPanics ==
    [][(from_api = <<>> /\ ~sender_alive /\ last' # last) =>
            /\ panicked'
            /\ last'.outcome = "panicked"
            /\ last'.req = None
            /\ to_api' = to_api
            /\ n_sent' = n_sent
            /\ n_dequeued' = n_dequeued
            /\ UNCHANGED vm_vars]_vars

\* The sender was dropped with a request still queued: that request is
\* handled and answered, the next call panics.
C31_Witness ==
    /\ panicked
    /\ ~sender_alive
    /\ last.outcome = "panicked"
    /\ last.req = None
    /\ n_dequeued = 1
    /\ n_sent = 1

\* C32: ConfigureBootSource on an uninitialized VM fails on the first of:
\* kernel file cannot be opened (InvalidKernelPath), initrd path given and
\* cannot be opened (InvalidInitrdPath), boot arguments (the default command
\* line when none are given) do not fit the command line
\* (InvalidKernelCommandLine).  A failure leaves the installed kernel
\* configuration unchanged (and a later file is not opened after an earlier
\* failure); the new one is installed exactly when the response is Ok(Empty).
C32_BootSourceCheckOrder ==
    [][(Handles("ConfigureBootSource") /\ vm_present
            /\ ~is_vm_initialized(instance_state)) =>
         LET b == Head(from_api).payload[1]
             kernel_bad == b.kernel_path \notin ExistingFiles
             initrd_bad == b.initrd_path # None /\ b.initrd_path[1] \notin ExistingFiles
             args == IF b.boot_args = None THEN DEFAULT_KERNEL_CMDLINE
                     ELSE b.boot_args[1]
             args_bad == args \in OversizedBootArgs
             resp == last'.resp[1]
         IN  /\ kernel_bad =>
                    /\ resp = BootSource("InvalidKernelPath", Some("NotFound"))
                    /\ last'.opened = {b.kernel_path}
             /\ (~kernel_bad /\ initrd_bad) =>
                    resp = BootSource("InvalidInitrdPath", Some("NotFound"))
             /\ (~kernel_bad /\ ~initrd_bad /\ args_bad) =>
                    resp = BootSource("InvalidKernelCommandLine", Some("TooLarge"))
             /\ (~kernel_bad /\ ~initrd_bad /\ ~args_bad) => resp = OkEmpty
             /\ resp # OkEmpty => kernel_config' = kernel_config
             /\ resp = OkEmpty =>
                    kernel_config' =
                        Some(KernelConfigInfo(b.kernel_path, b.initrd_path, args))
             /\ (kernel_config' # kernel_config) => resp = OkEmpty]_vars

\* A ConfigureBootSource whose files open but whose boot arguments are too
\* long, after one that installed a kernel configuration: the installed
\* configuration is still the first request's.
C32_Witness ==
    /\ Answered("ConfigureBootSource")
    /\ n_dequeued = 2
    /\ last.resp[1] = BootSource("InvalidKernelCommandLine", Some("TooLarge"))
    /\ last.req[1].payload[1].initrd_path = Some("/initrd.img")
    /\ kernel_config = Some(KernelConfigInfo("/vmlinux", None, DEFAULT_KERNEL_CMDLINE))

\* C33: requests are handled one at a time in submission order, also when
\* several are queued: a run_vmm_action call dequeues at most one request,
\* the one at the head of the queue; when it is dequeued every request
\* dequeued before it has been answered, and its own response is sent in the
\* same call, so before the next request is dequeued; the k-th response on
\* the response channel is the result of the k-th request.
C33_HandledInSubmissionOrder ==
    /\ [](Len(from_api) = n_submitted - n_dequeued)
    /\ [](~panicked => (n_sent = n_dequeued /\ Len(to_api) = n_sent))
    /\ [][n_submitted' # n_submitted =>
            /\ n_submitted' = n_submitted + 1
            /\ from_api' = Append(from_api, from_api'[Len(from_api')])
            /\ n_dequeued' = n_dequeued]_vars
    /\ [][n_dequeued' # n_dequeued =>
            /\ n_dequeued' = n_dequeued + 1
            /\ from_api' = Tail(from_api)
            /\ last'.req = Some(Head(from_api))
            /\ n_sent = n_dequeued
            /\ n_sent' = n_dequeued'
            /\ to_api' = Append(to_api, last'.resp[1])
            /\ to_api'[n_dequeued'] = last'.resp[1]
            /\ last'.resp[1] = dispatch(Head(from_api), last'.env[1]).resp
            /\ (vm_present /\ Head(from_api).kind = "InsertVsockDevice"
                    /\ Head(from_api).payload[1] <= 2
                    /\ ~is_vm_initialized(instance_state)) =>
                   to_api'[n_dequeued'] =
                       Vsock("GuestCIDInvalid", Head(from_api).payload)]_vars

\* Three requests were sent without waiting; the first has been answered
\* and the other two are still queued, in the order they were sent.
C33_Witness ==
    /\ vm_present
    /\ n_submitted = 3
    /\ n_dequeued = 1
    /\ to_api = <<Vsock("GuestCIDInvalid", Some(2))>>
    /\ from_api = <<Request("InsertVsockDevice", Some(0)),
                    Request("GetVmConfiguration", None)>>

C35_LifecycleStateOnlyByBoot ==
    [][/\ instance_state' # instance_state =>
            /\ Handles("StartMicroVm")
            /\ vm_present
            /\ ~is_vm_initialized(instance_state)
            /\ last'.boot_invoked
       /\ (n_dequeued' # n_dequeued /\ ~last'.boot_invoked) =>
            instance_state' = instance_state
       /\ Handles("ShutdownMicroVm") =>
            /\ exit_evt_triggered'
            /\ UNCHANGED <<vm_present, hotplug, instance_state, kernel_config,
                           vm_config, machine_config>>]_vars

\* A ShutdownMicroVm on a VM that was started: it stays Running.
C35_Witness ==
    /\ Answered("ShutdownMicroVm")
    /\ start_succeeded
    /\ instance_state = "Running"
    /\ exit_evt_triggered
    /\ last.resp[1] = OkEmpty

\* C36: with both channel halves connected and run_vmm_action invoked again
\* and again (weak fairness of the dispatcher step), every request put on
\* the request channel is eventually dequeued and answered: for every k,
\* once k requests have been sent, k of them are eventually dequeued and k
\* responses sent.
C36_EveryRequestAnswered ==
    \A k \in 1..MaxClientOps :
            (n_submitted >= k) ~> (n_dequeued >= k /\ n_sent >= k)

\* All the requests the producer sent, several of them queued at once,
\* have been answered.
C36_Witness ==
    /\ n_submitted = 3
    /\ n_sent = 3
    /\ Len(to_api) = 3
    /\ from_api = <<>>
    /\ sender_alive /\ receiver_alive /\ ~panicked
    /\ to_api[3].tag = "Err"

\* C37: a successful SetVmConfiguration leaves the dispatcher's cached
\* configuration equal to the VM's machine configuration, no later step
\* makes them differ, and GetVmConfiguration then reports exactly what is
\* stored on the VM.  (A stored serial path tells that a SetVmConfiguration
\* has succeeded: the default configuration has none and every successful
\* one stores one.)
C37_CacheEqualsVmConfig ==
    /\ [][(Handles("SetVmConfiguration") /\ last'.resp[1] = OkEmpty) =>
            (machine_config' = vm_config' /\ vm_config'.serial_path # None)]_vars
    /\ [][machine_config = vm_config => machine_config' = vm_config']_vars
    /\ [](vm_config.serial_path # None => machine_config = vm_config)
    /\ [][(Handles("GetVmConfiguration") /\ vm_config.serial_path # None) =>
            last'.resp[1] = OkMachineConfiguration(vm_config)]_vars

\* GetVmConfiguration after two successful SetVmConfiguration requests: it
\* reports the VM's configuration, which holds what the two stored.
C37_Witness ==
    /\ Answered("GetVmConfiguration")
    /\ n_dequeued = 3
    /\ last.resp[1] = OkMachineConfiguration(vm_config)
    /\ vm_config.serial_path = Some("/tmp/com1")
    /\ vm_config.vcpu_count = 2
    /\ machine_config = vm_config

\* Some product on the way from threads_per_core to the full product does not
\* fit in 8 bits, in the order set_vm_configuration multiplies.
UncheckedProductOverflows(t) ==
    \/ t.threads_per_core * t.cores_per_die > 255
    \/ t.threads_per_core * t.cores_per_die * t.dies_per_socket > 255
    \/ TopologyProduct(t) > 255

\* C38: whenever set_vm_configuration gets past the topology step, with a
\* validated caller topology or a synthesized one, no intermediate or final
\* product of threads_per_core * cores_per_die * dies_per_socket * sockets
\* exceeds 255, so the 8-bit product it computes is the mathematical one.
C38_UncheckedProductFits ==
    [][(/\ Handles("SetVmConfiguration")
        /\ vm_present
        /\ ~is_vm_initialized(instance_state)) =>
            LET mc == Head(from_api).payload[1]
                s1 == apply_vcpu_count(vm_config, mc)
            IN  s1.err = None =>
                    LET s2 == apply_cpu_topology(s1.config, mc) IN
                    s2.err = None =>
                        /\ ~UncheckedProductOverflows(s2.config.cpu_topology)
                        /\ max_vcpu_from_topo(s2.config.cpu_topology)
                               = TopologyProduct(s2.config.cpu_topology)]_vars

\* A validated caller topology whose product is the largest accepted one.
C38_Witness ==
    /\ Answered("SetVmConfiguration")
    /\ last.resp[1] = OkEmpty
    /\ last.req[1].payload[1].cpu_topology = CpuTopology(2, 127, 1, 1)
    /\ vm_config.cpu_topology = CpuTopology(2, 127, 1, 1)
    /\ vm_config.max_vcpu_count = 254

====
